---- MODULE Spec2Model ----
(***************************************************************************)
(* A model of nerfmirror.py: Dataset.download_single_file (the             *)
(* download-verify-extract pipeline), _make_dir_or_temp_dir (the scoped    *)
(* cache directory), Dataset.sha256sum and _lookahead.                     *)
(*                                                                         *)
(* The filesystem is modelled explicitly: the persistent cache path, the   *)
(* temporary directories made by tempfile.mkdtemp, and download_dir as a   *)
(* set of existing paths.  Every statement of download_single_file that    *)
(* touches the filesystem or can raise is one action; an exception raised  *)
(* inside the with-block moves control to the finally clause of            *)
(* _make_dir_or_temp_dir (Release) with the exception pending in err.      *)
(*                                                                         *)
(* Spec is one process making calls one after another.  SpecFair adds that *)
(* a call in progress goes on; SpecKill adds SIGINT and the death of the   *)
(* process; SpecConc adds a second process on the same filesystem; and     *)
(* SpecLookahead applies _lookahead to bounded sequences.                  *)
(***************************************************************************)
EXTENDS Integers, Sequences, FiniteSets, TLC

(* ------------------------------ bounds -------------------------------- *)

\* Number of consecutive calls of download_single_file in one behaviour.
MaxRuns == 2

(* ----------------------------- the inputs ----------------------------- *)

None == "None"

\* A URL is its scheme+host followed by the segments of its path.
NeRFSyntheticUrl ==
    << "https://github.com", "yxlao", "nerfmirror", "releases", "download",
       "20220618", "nerf_synthetic.zip" >>

\* The sha256 argument with the slip of one character typed twice.
NeRFSyntheticSha256Typo ==
    "f01fd1b4ab045b0d453917346f26f898657bb5bec4834b95fdad1f361826e45ee"

NeRFSyntheticSha256 ==
    "f01fd1b4ab045b0d453917346f26f898657bb5bec4834b95fdad1f361826e45e"

NeRFLLFFUrl ==
    << "https://github.com", "yxlao", "nerfmirror", "releases", "download",
       "20220618", "nerf_llff_data.zip" >>

NeRFLLFFSha256 ==
    "5794b432feaf4f25bcd603addc6ad0270cec588fed6a364b7952001f07466635"

\* os.path.basename(urllib.parse.urlparse(url).path): the last path segment.
Basename(url) == url[Len(url)]

\* Paths relative to download_dir are sequences of names.  A path of one
\* name is a directory, a longer one is a regular file.
SyntheticDir == << "nerf_synthetic" >>
MacosxDir    == << "__MACOSX" >>
ReadmeFile   == << "nerf_synthetic", "README.txt" >>
LegoFile     == << "nerf_synthetic", "lego" >>
MacosxFile   == << "__MACOSX", "README.txt" >>

Paths == { SyntheticDir, MacosxDir, ReadmeFile, LegoFile, MacosxFile }

IsDirPath(p) == Len(p) = 1

\* p is q or an ancestor of q.
IsPrefix(p, q) == Len(p) <= Len(q) /\ SubSeq(q, 1, Len(p)) = p

(* ----------------------- file contents on disk ------------------------ *)

\* The byte contents a file at the cache path can have.  Each is either a
\* zip archive (with its members in archive order) or not an archive.
Contents == { "synthetic_zip", "no_macosx_zip", "empty_byproduct_zip",
              "macosx_only_zip", "truncated" }

IsZip(c) == c # "truncated"

Members(c) ==
    CASE c = "synthetic_zip"       ->
            << SyntheticDir, ReadmeFile, LegoFile, MacosxDir, MacosxFile >>
      [] c = "no_macosx_zip"       -> << SyntheticDir, ReadmeFile >>
      [] c = "empty_byproduct_zip" -> << SyntheticDir, MacosxDir, MacosxFile >>
      [] c = "macosx_only_zip"     -> << MacosxDir, MacosxFile >>
      [] OTHER                     -> << >>

\* Characters in hashlib.sha256().hexdigest(): 256 bits, two per byte.
HexDigestLen == 64

\* The digest of the archive released at NeRFSyntheticUrl.
ReleasedSyntheticDigest ==
    "f01fd1b4ab045b0d453917346f26f898657bb5bec4834b95fdad1f361826e45e"

\* hashlib.sha256 over the whole byte stream, as hex: distinct contents have
\* distinct digests, each of HexDigestLen characters.
HexDigest(c) ==
    CASE c = "synthetic_zip"       -> ReleasedSyntheticDigest
      [] c = "no_macosx_zip"       ->
            "1111111111111111111111111111111111111111111111111111111111111111"
      [] c = "empty_byproduct_zip" ->
            "2222222222222222222222222222222222222222222222222222222222222222"
      [] c = "macosx_only_zip"     ->
            "3333333333333333333333333333333333333333333333333333333333333333"
      [] OTHER                     ->
            "4444444444444444444444444444444444444444444444444444444444444444"

\* What a directory entry named like the archive can be.
Absent    == "absent"
Directory == "directory"
FileStates == Contents \cup { Absent, Directory }

FileNames == { Basename(NeRFSyntheticUrl) }

NoFiles == [ n \in FileNames |-> Absent ]

AbsentDir == [ kind |-> "absent", files |-> NoFiles ]
RegularFile == [ kind |-> "file", files |-> NoFiles ]
EmptyDir == [ kind |-> "dir", files |-> NoFiles ]

DirStates ==
    { AbsentDir, RegularFile } \cup
    [ kind : { "dir" }, files : [ FileNames -> FileStates ] ]

(* --------------------------- the descriptors -------------------------- *)

\* delete_dir_name=None is the empty sequence, which is no path.
NoneName == << >>

\* The arguments url, sha256, byproduct_dir_name and delete_dir_name of
\* download_single_file.  byproduct_is_str is isinstance(byproduct_dir_name,
\* str).
Sha256Choices ==
    { HexDigest(c) : c \in Contents } \cup { NeRFLLFFSha256, NeRFSyntheticSha256Typo }

\* The call NeRFSynthetic.download makes.
NeRFSynthetic ==
    [ url |-> NeRFSyntheticUrl, sha256 |-> NeRFSyntheticSha256,
      byproduct_dir_name |-> SyntheticDir, byproduct_is_str |-> TRUE,
      delete_dir_name |-> MacosxDir ]

\* The call NeRFLLFF.download makes.
NeRFLLFF ==
    [ url |-> NeRFLLFFUrl, sha256 |-> NeRFLLFFSha256,
      byproduct_dir_name |-> << "nerf_llff_data" >>, byproduct_is_str |-> TRUE,
      delete_dir_name |-> NoneName ]

\* The calls of the classes in _dataset_registry.
Registered == { NeRFSynthetic, NeRFLLFF }

Descriptors ==
    [ url : { NeRFSyntheticUrl }, sha256 : Sha256Choices,
      byproduct_dir_name : { SyntheticDir, ReadmeFile },
      byproduct_is_str : { TRUE },
      delete_dir_name : { NoneName, MacosxDir, SyntheticDir, ReadmeFile } ]
    \cup { [ NeRFSynthetic EXCEPT !.byproduct_is_str = FALSE ] }

\* The cache_dir argument: None, or the one persistent path of the model.
CachePath == "cache"
CacheDirArgs == { None, CachePath }

(* ------------------------------ the state ----------------------------- *)

VARIABLES
    desc,           \* the descriptor every call of the behaviour is made with
    cache_dir_arg,  \* the cache_dir argument of the current call
    persist,        \* what is at CachePath on disk
    tmp,            \* the directories tempfile.mkdtemp made, by number
    dl,             \* the paths that exist under download_dir
    pc,             \* the position of the current call
    err,            \* the exception pending in the current call, or "none"
    cache_dir,      \* the directory _make_dir_or_temp_dir yielded: 0 is
                    \* CachePath, n > 0 is temporary directory n
    is_temp_dir,    \* _make_dir_or_temp_dir's local
    sha256_valid,   \* download_single_file's local
    runs,           \* calls made so far
    trail,          \* history: the steps and library calls of the current call
    last_sum,       \* history: outcome of the latest sha256sum comparison
    left_in_cache,  \* history: what was at CachePath / file_name when the
                    \* current call was made
    printed,        \* the tree listing printed by the current call
    prev,           \* history: how the call before the current one ended,
                    \* and the disk as it left it
    entries,       \* history: the entries the latest _lookahead was given
    yielded,        \* history: the (item, has_more) pairs it yielded
    other           \* the locals (and history) of a second invocation in
                    \* another process, while the first one is running

vars == << desc, cache_dir_arg, persist, tmp, dl, pc, err, cache_dir,
           is_temp_dir, sha256_valid, runs, trail, last_sum, left_in_cache,
           printed, prev, entries, yielded, other >>

\* What belongs to one invocation: its arguments, position and locals, and
\* its history.
Locals ==
    [ cache_dir_arg |-> cache_dir_arg, pc |-> pc, err |-> err,
      cache_dir |-> cache_dir, is_temp_dir |-> is_temp_dir,
      sha256_valid |-> sha256_valid, trail |-> trail, last_sum |-> last_sum,
      left_in_cache |-> left_in_cache, printed |-> printed, prev |-> prev,
      entries |-> entries, yielded |-> yielded ]

\* No call came before.
NoPrev ==
    [ pc |-> "Idle", cache_dir_arg |-> None, dl |-> {},
      persist |-> AbsentDir ]

\* An invocation that has not been called.
IdleLocals ==
    [ cache_dir_arg |-> None, pc |-> "Idle", err |-> "none", cache_dir |-> 0,
      is_temp_dir |-> FALSE, sha256_valid |-> FALSE, trail |-> << >>,
      last_sum |-> "none", left_in_cache |-> Absent, printed |-> << >>,
      prev |-> NoPrev, entries |-> << >>, yielded |-> << >> ]

TempIds == 1..MaxRuns

file_name == Basename(desc.url)

\* The directory state behind the local cache_dir.
CurDir == IF is_temp_dir THEN tmp[cache_dir] ELSE persist

\* Path.is_file() of cache_dir / name.
is_file(dir, name) == dir.kind = "dir" /\ dir.files[name] \in Contents

\* Dataset.sha256sum.
sha256sum(dir, name) ==
    IF ~is_file(dir, name) THEN "FileNotFoundError"
    ELSE HexDigest(dir.files[name])

\* Writing content c to cache_dir / file_name.
WriteFile(c) ==
    IF is_temp_dir
    THEN /\ tmp' = [ tmp EXCEPT ![cache_dir].files[file_name] = c ]
         /\ UNCHANGED persist
    ELSE /\ persist' = [ persist EXCEPT !.files[file_name] = c ]
         /\ UNCHANGED tmp

\* An exception raised inside the with-block: control passes to the finally
\* clause of _make_dir_or_temp_dir.
Raise(e) == pc' = "Release" /\ err' = e

Range(s) == { s[i] : i \in 1..Len(s) }

Init ==
    /\ desc \in Descriptors
    /\ cache_dir_arg = None
    /\ persist \in { AbsentDir, RegularFile, EmptyDir,
                     [ EmptyDir EXCEPT !.files[file_name] = Directory ] }
    /\ tmp = [ i \in TempIds |-> AbsentDir ]
    /\ dl = {}
    /\ pc = "Idle"
    /\ err = "none"
    /\ cache_dir = 0
    /\ is_temp_dir = FALSE
    /\ sha256_valid = FALSE
    /\ runs = 0
    /\ trail = << >>
    /\ last_sum = "none"
    /\ left_in_cache = Absent
    /\ printed = << >>
    /\ prev = NoPrev
    /\ entries = << >>
    /\ yielded = << >>
    /\ other = IdleLocals

(* ---------------------------- the operations -------------------------- *)

\* A call of download_single_file(url, sha256, ..., cache_dir = arg).
Call(arg) ==
    /\ pc \in { "Idle", "Done", "Failed" }
    /\ runs < MaxRuns
    /\ runs' = runs + 1
    /\ cache_dir_arg' = arg
    /\ pc' = "Acquire"
    /\ err' = "none"
    /\ cache_dir' = 0
    /\ is_temp_dir' = FALSE
    /\ sha256_valid' = FALSE
    /\ trail' = << >>
    /\ last_sum' = "none"
    /\ left_in_cache' = IF persist.kind = "dir" THEN persist.files[file_name]
                                                ELSE Absent
    /\ printed' = << >>
    /\ prev' = [ pc |-> pc, cache_dir_arg |-> cache_dir_arg, dl |-> dl,
                 persist |-> persist ]
    /\ entries' = << >>
    /\ yielded' = << >>
    /\ UNCHANGED << other, desc, persist, tmp, dl >>

\* MakeDir with the bug of not testing is_file(): mkdir(exist_ok=True) on a
\* regular file raises FileExistsError.
MakeDirNoFileCheck ==
    /\ pc = "Acquire"
    /\ cache_dir_arg # None
    /\ trail' = Append(trail, "Acquire")
    /\ IF persist.kind = "file"
       THEN pc' = "Failed" /\ err' = "FileExistsError: mkdir"
       ELSE pc' = "CheckArgs" /\ err' = "none"
    /\ persist' = IF persist.kind = "absent" THEN EmptyDir ELSE persist
    /\ is_temp_dir' = FALSE
    /\ cache_dir' = 0
    /\ UNCHANGED << entries, yielded, other, prev, desc, cache_dir_arg, tmp, dl, sha256_valid, runs,
                    last_sum, left_in_cache, printed >>

\* _make_dir_or_temp_dir up to its yield, with a cache_dir given: a regular
\* file there is a ValueError, otherwise mkdir(exist_ok=True, parents=True).
\* An exception here is raised before the try block is entered.
MakeDir ==
    /\ pc = "Acquire"
    /\ cache_dir_arg # None
    /\ trail' = Append(trail, "Acquire")
    /\ IF persist.kind = "file"
       THEN /\ pc' = "Failed"
            /\ err' = "ValueError: cache dir is a file"
            /\ UNCHANGED persist
       ELSE \/ /\ persist' = IF persist.kind = "dir" THEN persist ELSE EmptyDir
               /\ pc' = "CheckArgs"
               /\ err' = "none"
            \/ /\ persist.kind = "absent"
               /\ pc' = "Failed"
               /\ err' = "OSError: mkdir"
               /\ UNCHANGED persist
    /\ is_temp_dir' = FALSE
    /\ cache_dir' = 0
    /\ UNCHANGED << entries, yielded, other, prev, desc, cache_dir_arg, tmp, dl, sha256_valid, runs,
                    last_sum, left_in_cache, printed >>

\* The name tempfile.mkdtemp picks: one that does not exist.
FreshTempId ==
    CHOOSE i \in TempIds :
        /\ tmp[i].kind = "absent"
        /\ \A j \in 1..(i - 1) : tmp[j].kind # "absent"

\* MakeTempDir with the bug of a fixed directory name in place of mkdtemp.
MakeTempDirFixedName ==
    /\ pc = "Acquire"
    /\ cache_dir_arg = None
    /\ tmp' = [ tmp EXCEPT ![1] = IF tmp[1].kind = "dir" THEN tmp[1] ELSE EmptyDir ]
    /\ cache_dir' = 1
    /\ is_temp_dir' = TRUE
    /\ trail' = trail \o << "Acquire", "mkdtemp" >>
    /\ pc' = "CheckArgs"
    /\ err' = "none"
    /\ UNCHANGED << entries, yielded, other, prev, desc, cache_dir_arg, persist, dl, sha256_valid, runs,
                    last_sum, left_in_cache, printed >>

\* MakeTempDir with the bug of falling back to the persistent cache path
\* when cache_dir is None.
MakeTempDirUsesCachePath ==
    /\ pc = "Acquire"
    /\ cache_dir_arg = None
    /\ IF persist.kind = "file"
       THEN /\ pc' = "Failed"
            /\ err' = "ValueError: cache dir is a file"
            /\ UNCHANGED persist
       ELSE /\ persist' = IF persist.kind = "dir" THEN persist ELSE EmptyDir
            /\ pc' = "CheckArgs"
            /\ err' = "none"
    /\ cache_dir' = 0
    /\ is_temp_dir' = FALSE
    /\ trail' = Append(trail, "Acquire")
    /\ UNCHANGED << entries, yielded, other, prev, desc, cache_dir_arg, tmp, dl, sha256_valid, runs,
                    last_sum, left_in_cache, printed >>

\* _make_dir_or_temp_dir up to its yield, with cache_dir None:
\* tempfile.mkdtemp() makes a fresh empty directory.
MakeTempDir ==
    /\ pc = "Acquire"
    /\ cache_dir_arg = None
    /\ \/ /\ tmp' = [ tmp EXCEPT ![FreshTempId] = EmptyDir ]
          /\ cache_dir' = FreshTempId
          /\ is_temp_dir' = TRUE
          /\ trail' = trail \o << "Acquire", "mkdtemp" >>
          /\ pc' = "CheckArgs"
          /\ err' = "none"
       \/ /\ pc' = "Failed"
          /\ err' = "OSError: mkdtemp"
          /\ trail' = Append(trail, "Acquire")
          /\ UNCHANGED << tmp, cache_dir, is_temp_dir >>
    /\ UNCHANGED << entries, yielded, other, prev, desc, cache_dir_arg, persist, dl, sha256_valid, runs,
                    last_sum, left_in_cache, printed >>

\* "Wrap dirs": the isinstance check of byproduct_dir_name.
CheckArgs ==
    /\ pc = "CheckArgs"
    /\ trail' = Append(trail, "CheckArgs")
    /\ IF desc.byproduct_is_str
       THEN pc' = "CacheCheck" /\ err' = "none"
       ELSE Raise("ValueError: byproduct_dir_name must be a string")
    /\ UNCHANGED << entries, yielded, other, prev, desc, cache_dir_arg, persist, tmp, dl, cache_dir,
                    is_temp_dir, sha256_valid, runs, last_sum, left_in_cache, printed >>

\* CacheCheck with the bug of trusting any regular file at file_path without
\* comparing its digest.
CacheCheckTrustsFile ==
    /\ pc = "CacheCheck"
    /\ sha256_valid' = is_file(CurDir, file_name)
    /\ last_sum' = "none"
    /\ trail' = trail \o ( IF is_file(CurDir, file_name)
                           THEN << "CacheCheck", "CacheHit" >>
                           ELSE << "CacheCheck" >> )
    /\ pc' = IF sha256_valid' THEN "Extract" ELSE "Download"
    /\ UNCHANGED << entries, yielded, other, prev, desc, cache_dir_arg, persist, tmp, dl, err, cache_dir,
                    is_temp_dir, runs, left_in_cache, printed >>

\* CacheCheck with the bug of never accepting the cached file.
CacheCheckAlwaysDownloads ==
    /\ pc = "CacheCheck"
    /\ sha256_valid' = FALSE
    /\ last_sum' = IF ~is_file(CurDir, file_name) THEN "none"
                   ELSE IF sha256sum(CurDir, file_name) = desc.sha256
                   THEN "match" ELSE "mismatch"
    /\ trail' = Append(trail, "CacheCheck")
    /\ pc' = "Download"
    /\ UNCHANGED << entries, yielded, other, prev, desc, cache_dir_arg, persist, tmp, dl, err, cache_dir,
                    is_temp_dir, runs, left_in_cache, printed >>

\* CacheCheck with the bug of deleting a cached file whose checksum
\* mismatches before the download.
CacheCheckDeletesStale ==
    /\ pc = "CacheCheck"
    /\ IF is_file(CurDir, file_name)
       THEN LET valid == sha256sum(CurDir, file_name) = desc.sha256
            IN  /\ sha256_valid' = valid
                /\ last_sum' = IF valid THEN "match" ELSE "mismatch"
                /\ trail' = trail \o ( IF valid
                                       THEN << "CacheCheck", "CacheHit" >>
                                       ELSE << "CacheCheck", "CacheStale" >> )
                /\ IF valid THEN UNCHANGED << persist, tmp >> ELSE WriteFile(Absent)
       ELSE /\ sha256_valid' = FALSE
            /\ last_sum' = "none"
            /\ trail' = Append(trail, "CacheCheck")
            /\ UNCHANGED << persist, tmp >>
    /\ pc' = IF sha256_valid' THEN "Extract" ELSE "Download"
    /\ UNCHANGED << entries, yielded, other, prev, desc, cache_dir_arg, dl, err, cache_dir,
                    is_temp_dir, runs, left_in_cache, printed >>

\* "Check cache": sha256_valid is the comparison of the cached file's digest,
\* and stays False when there is no regular file at file_path.  The two
\* messages printed are recorded as CacheHit ("checksum matches, skipping
\* download") and CacheStale ("checksum mismatches, will download again").
CacheCheck ==
    /\ pc = "CacheCheck"
    /\ IF is_file(CurDir, file_name)
       THEN LET valid == sha256sum(CurDir, file_name) = desc.sha256
            IN  /\ sha256_valid' = valid
                /\ last_sum' = IF valid THEN "match" ELSE "mismatch"
                /\ trail' = trail \o ( IF valid
                                       THEN << "CacheCheck", "CacheHit" >>
                                       ELSE << "CacheCheck", "CacheStale" >> )
       ELSE /\ sha256_valid' = FALSE
            /\ last_sum' = "none"
            /\ trail' = Append(trail, "CacheCheck")
    /\ pc' = IF sha256_valid' THEN "Extract" ELSE "Download"
    /\ UNCHANGED << entries, yielded, other, prev, desc, cache_dir_arg, persist, tmp, dl, err, cache_dir,
                    is_temp_dir, runs, left_in_cache, printed >>

\* DownloadUrl with the bug of a retry loop: a failed connection is tried
\* again.
DownloadUrlRetries ==
    /\ pc = "Download"
    /\ trail' = Append(trail, "Download")
    /\ IF CurDir.files[file_name] = Directory
       THEN Raise("IsADirectoryError") /\ UNCHANGED << persist, tmp >>
       ELSE \/ \E c \in Contents :
                 /\ WriteFile(c)
                 /\ pc' = "VerifyAfterDownload"
                 /\ err' = "none"
            \/ pc' = "Download" /\ err' = "none" /\ UNCHANGED << persist, tmp >>
            \/ Raise("ContentTooShortError") /\ WriteFile("truncated")
    /\ UNCHANGED << entries, yielded, other, prev, desc, cache_dir_arg, dl, cache_dir, is_temp_dir,
                    sha256_valid, runs, last_sum, left_in_cache, printed >>

\* Dataset.download_url: urllib.request.urlretrieve(url, file_path).  The
\* server can send any content; a failure before the file is opened leaves
\* it as it was, a failure during the transfer leaves a truncated file.
DownloadUrl ==
    /\ pc = "Download"
    /\ trail' = Append(trail, "Download")
    /\ IF CurDir.files[file_name] = Directory
       THEN Raise("IsADirectoryError") /\ UNCHANGED << persist, tmp >>
       ELSE \/ \E c \in Contents :
                 /\ WriteFile(c)
                 /\ pc' = "VerifyAfterDownload"
                 /\ err' = "none"
            \/ Raise("URLError") /\ UNCHANGED << persist, tmp >>
            \/ Raise("ContentTooShortError") /\ WriteFile("truncated")
    /\ UNCHANGED << entries, yielded, other, prev, desc, cache_dir_arg, dl, cache_dir, is_temp_dir,
                    sha256_valid, runs, last_sum, left_in_cache, printed >>

\* VerifyAfterDownload with the bug of fetching again on a mismatch.
VerifyAfterDownloadRetries ==
    /\ pc = "VerifyAfterDownload"
    /\ trail' = Append(trail, "VerifyAfterDownload")
    /\ LET sum == sha256sum(CurDir, file_name)
       IN  /\ sha256_valid' = (sum = desc.sha256)
           /\ last_sum' = IF sum = desc.sha256 THEN "match" ELSE "mismatch"
           /\ pc' = IF sum = desc.sha256 THEN "Extract" ELSE "Download"
    /\ UNCHANGED << entries, yielded, other, prev, desc, cache_dir_arg, persist, tmp, dl, err, cache_dir,
                    is_temp_dir, runs, left_in_cache, printed >>

\* The checksum after the download: a mismatch is a ValueError.
VerifyAfterDownload ==
    /\ pc = "VerifyAfterDownload"
    /\ trail' = Append(trail, "VerifyAfterDownload")
    /\ LET sum == sha256sum(CurDir, file_name)
       IN  IF sum = "FileNotFoundError"
           THEN Raise("FileNotFoundError: sha256sum") /\ UNCHANGED << sha256_valid, last_sum >>
           ELSE /\ sha256_valid' = (sum = desc.sha256)
                /\ last_sum' = IF sum = desc.sha256 THEN "match" ELSE "mismatch"
                /\ IF sum = desc.sha256
                   THEN pc' = "Extract" /\ err' = "none"
                   ELSE Raise("ValueError: checksum mismatch")
    /\ UNCHANGED << entries, yielded, other, prev, desc, cache_dir_arg, persist, tmp, dl, cache_dir,
                    is_temp_dir, runs, left_in_cache, printed >>

\* Path.exists() of download_dir / p.
exists(p) == p \in dl

\* shutil.rmtree(download_dir / p) of a directory: p and all below it go.
rmtree(fs, p) == { q \in fs : ~IsPrefix(p, q) }

\* The names Path.iterdir() of download_dir / p yields.
iterdir(p) == { q[Len(q)] : q \in { r \in dl : Len(r) = Len(p) + 1 /\ IsPrefix(p, r) } }

\* The orders a directory's entries can be listed in.
Orderings(S) ==
    { s \in [ 1..Cardinality(S) -> S ] : \A i, j \in 1..Cardinality(S) : s[i] = s[j] => i = j }

\* The loop of _lookahead: `last` is held back, `rest` is still in the
\* iterator.
RECURSIVE lookahead_loop(_, _)
lookahead_loop(last, rest) ==
    IF rest = << >>
    THEN << << last, FALSE >> >>
    ELSE << << last, TRUE >> >> \o lookahead_loop(Head(rest), Tail(rest))

\* _lookahead: next(it) on an exhausted iterator raises StopIteration, which
\* a generator turns into RuntimeError.
StopIteration == << << "RuntimeError", FALSE >> >>

\* _lookahead with the first next(it) guarded: nothing is yielded for an
\* empty iterable.
lookahead_guarded(iterable) ==
    IF iterable = << >> THEN << >>
    ELSE lookahead_loop(Head(iterable), Tail(iterable))

_lookahead(iterable) ==
    IF iterable = << >> THEN StopIteration
    ELSE lookahead_loop(Head(iterable), Tail(iterable))

\* The line printed for one (f, has_more) pair.
TreeLine(pair) == << IF pair[2] THEN "|--" ELSE "L--", pair[1] >>

\* Extract with the bug of ignoring a file that is no zip archive.
ExtractIgnoresBadZip ==
    /\ pc = "Extract"
    /\ trail' = Append(trail, "Extract")
    /\ dl' = IF is_file(CurDir, file_name)
             THEN dl \cup Range(Members(CurDir.files[file_name])) ELSE dl
    /\ pc' = "ValidateByproduct"
    /\ UNCHANGED << entries, yielded, other, prev, desc, cache_dir_arg, persist, tmp, err, cache_dir,
                    is_temp_dir, sha256_valid, runs, last_sum, left_in_cache,
                    printed >>

\* Extract with the bug of refusing to overwrite: a member that already
\* exists under download_dir is a FileExistsError.
ExtractFailsOnExisting ==
    /\ pc = "Extract"
    /\ trail' = Append(trail, "Extract")
    /\ LET c == CurDir.files[file_name]
       IN  IF ~is_file(CurDir, file_name)
           THEN Raise("FileNotFoundError: zipfile") /\ UNCHANGED dl
           ELSE IF ~IsZip(c)
           THEN Raise("BadZipFile") /\ UNCHANGED dl
           ELSE IF Range(Members(c)) \cap dl # {}
           THEN Raise("FileExistsError: extractall") /\ UNCHANGED dl
           ELSE /\ dl' = dl \cup Range(Members(c))
                /\ pc' = "ValidateByproduct"
                /\ err' = "none"
    /\ UNCHANGED << entries, yielded, other, prev, desc, cache_dir_arg, persist, tmp, cache_dir, is_temp_dir,
                    sha256_valid, runs, last_sum, left_in_cache, printed >>

\* "Extract": zipfile.ZipFile(file_path) and extractall(download_dir).
\* extractall writes the members in archive order; a write error stops it
\* after some of them.
Extract ==
    /\ pc = "Extract"
    /\ trail' = Append(trail, "Extract")
    /\ LET c == CurDir.files[file_name]
       IN  IF ~is_file(CurDir, file_name)
           THEN Raise("FileNotFoundError: zipfile") /\ UNCHANGED dl
           ELSE IF ~IsZip(c)
           THEN Raise("BadZipFile") /\ UNCHANGED dl
           ELSE \/ /\ dl' = dl \cup Range(Members(c))
                   /\ pc' = "ValidateByproduct"
                   /\ err' = "none"
                \/ \E k \in 0..(Len(Members(c)) - 1) :
                      /\ dl' = dl \cup Range(SubSeq(Members(c), 1, k))
                      /\ Raise("OSError: extractall")
    /\ UNCHANGED << entries, yielded, other, prev, desc, cache_dir_arg, persist, tmp, cache_dir, is_temp_dir,
                    sha256_valid, runs, last_sum, left_in_cache, printed >>

\* ValidateByproduct with the bug of not testing exists().
ValidateByproductSkipped ==
    /\ pc = "ValidateByproduct"
    /\ trail' = Append(trail, "ValidateByproduct")
    /\ pc' = "Cleanup"
    /\ UNCHANGED << entries, yielded, other, prev, desc, cache_dir_arg, persist, tmp, dl, err, cache_dir,
                    is_temp_dir, sha256_valid, runs, last_sum, left_in_cache,
                    printed >>

\* ValidateByproduct with the bug of rolling download_dir back when the
\* byproduct is missing.
ValidateByproductRollsBack ==
    /\ pc = "ValidateByproduct"
    /\ trail' = Append(trail, "ValidateByproduct")
    /\ IF exists(desc.byproduct_dir_name)
       THEN pc' = "Cleanup" /\ err' = "none" /\ UNCHANGED dl
       ELSE /\ Raise("FileNotFoundError: byproduct_dir")
            /\ dl' = dl \ Range(Members(CurDir.files[file_name]))
    /\ UNCHANGED << entries, yielded, other, prev, desc, cache_dir_arg, persist, tmp, cache_dir,
                    is_temp_dir, sha256_valid, runs, last_sum, left_in_cache, printed >>

\* "Check byproducts".
ValidateByproduct ==
    /\ pc = "ValidateByproduct"
    /\ trail' = Append(trail, "ValidateByproduct")
    /\ IF exists(desc.byproduct_dir_name)
       THEN pc' = "Cleanup" /\ err' = "none"
       ELSE Raise("FileNotFoundError: byproduct_dir")
    /\ UNCHANGED << entries, yielded, other, prev, desc, cache_dir_arg, persist, tmp, dl, cache_dir,
                    is_temp_dir, sha256_valid, runs, last_sum, left_in_cache, printed >>

\* Cleanup with the bug of never deleting.
CleanupSkipped ==
    /\ pc = "Cleanup"
    /\ trail' = Append(trail, "Cleanup")
    /\ pc' = "Report"
    /\ UNCHANGED << entries, yielded, other, prev, desc, cache_dir_arg, persist, tmp, dl, err, cache_dir,
                    is_temp_dir, sha256_valid, runs, last_sum, left_in_cache,
                    printed >>

\* "Delete delete_dir_name".  shutil.rmtree of a regular file raises
\* NotADirectoryError and removes nothing.
Cleanup ==
    /\ pc = "Cleanup"
    /\ IF desc.delete_dir_name # NoneName /\ exists(desc.delete_dir_name)
       THEN /\ trail' = trail \o << "Cleanup", "rmtree delete_dir" >>
            /\ IF IsDirPath(desc.delete_dir_name)
               THEN /\ dl' = rmtree(dl, desc.delete_dir_name)
                    /\ pc' = "Report"
                    /\ err' = "none"
               ELSE Raise("NotADirectoryError: rmtree") /\ UNCHANGED dl
       ELSE /\ trail' = Append(trail, "Cleanup")
            /\ pc' = "Report"
            /\ err' = "none"
            /\ UNCHANGED dl
    /\ UNCHANGED << entries, yielded, other, prev, desc, cache_dir_arg, persist, tmp, cache_dir, is_temp_dir,
                    sha256_valid, runs, last_sum, left_in_cache, printed >>

\* "List directory of byproduct_dir": the loop over
\* _lookahead(byproduct_dir.iterdir()).
Report ==
    /\ pc = "Report"
    /\ trail' = Append(trail, "Report")
    /\ IF ~exists(desc.byproduct_dir_name)
       THEN Raise("FileNotFoundError: iterdir")
            /\ UNCHANGED << printed, entries, yielded >>
       ELSE IF ~IsDirPath(desc.byproduct_dir_name)
       THEN Raise("NotADirectoryError: iterdir")
            /\ UNCHANGED << printed, entries, yielded >>
       ELSE \E order \in Orderings(iterdir(desc.byproduct_dir_name)) :
               LET pairs == _lookahead(order)
               IN  /\ entries' = order
                   /\ yielded' = pairs
                   /\ IF pairs = StopIteration
                      THEN Raise("RuntimeError: generator raised StopIteration")
                           /\ UNCHANGED printed
                      ELSE /\ printed' = [ i \in 1..Len(pairs) |-> TreeLine(pairs[i]) ]
                           /\ pc' = "Release"
                           /\ err' = "none"
    /\ UNCHANGED << other, prev, desc, cache_dir_arg, persist, tmp, dl, cache_dir,
                    is_temp_dir, sha256_valid, runs, last_sum, left_in_cache >>

\* Release with the bug of removing the temporary directory after the yield
\* instead of in a finally clause: an exception skips the removal.
ReleaseOnlyOnSuccess ==
    /\ pc = "Release"
    /\ IF is_temp_dir /\ err = "none"
       THEN /\ tmp' = [ tmp EXCEPT ![cache_dir] = AbsentDir ]
            /\ trail' = trail \o << "Release", "rmtree cache_dir" >>
       ELSE /\ trail' = Append(trail, "Release")
            /\ UNCHANGED tmp
    /\ pc' = IF err = "none" THEN "Done" ELSE "Failed"
    /\ UNCHANGED << entries, yielded, other, prev, desc, cache_dir_arg, persist, dl, err, cache_dir,
                    is_temp_dir, sha256_valid, runs, last_sum, left_in_cache,
                    printed >>

\* Release with the bug of removing cache_dir whether or not it is
\* temporary.
ReleaseDeletesAlways ==
    /\ pc = "Release"
    /\ trail' = trail \o << "Release", "rmtree cache_dir" >>
    /\ IF is_temp_dir
       THEN tmp' = [ tmp EXCEPT ![cache_dir] = AbsentDir ] /\ UNCHANGED persist
       ELSE persist' = AbsentDir /\ UNCHANGED tmp
    /\ pc' = IF err = "none" THEN "Done" ELSE "Failed"
    /\ UNCHANGED << entries, yielded, other, prev, desc, cache_dir_arg, dl, err, cache_dir, is_temp_dir,
                    sha256_valid, runs, last_sum, left_in_cache, printed >>

\* The finally clause of _make_dir_or_temp_dir: a temporary directory is
\* removed with everything in it; then the call returns, or the pending
\* exception propagates.
Release ==
    /\ pc = "Release"
    /\ IF is_temp_dir
       THEN /\ tmp' = [ tmp EXCEPT ![cache_dir] = AbsentDir ]
            /\ trail' = trail \o << "Release", "rmtree cache_dir" >>
       ELSE /\ trail' = Append(trail, "Release")
            /\ UNCHANGED tmp
    /\ pc' = IF err = "none" THEN "Done" ELSE "Failed"
    /\ UNCHANGED << entries, yielded, other, prev, desc, cache_dir_arg, persist, dl, err, cache_dir,
                    is_temp_dir, sha256_valid, runs, last_sum, left_in_cache, printed >>

Next ==
    \/ \E arg \in CacheDirArgs : Call(arg)
    \/ MakeDir
    \/ MakeTempDir
    \/ CheckArgs
    \/ CacheCheck
    \/ DownloadUrl
    \/ VerifyAfterDownload
    \/ Extract
    \/ ValidateByproduct
    \/ Cleanup
    \/ Report
    \/ Release

Spec == Init /\ [][Next]_vars

(* ------------------------- a call that goes on ------------------------ *)

\* A step of the call in progress.
RunStep ==
    \/ MakeDir
    \/ MakeTempDir
    \/ CheckArgs
    \/ CacheCheck
    \/ DownloadUrl
    \/ VerifyAfterDownload
    \/ Extract
    \/ ValidateByproduct
    \/ Cleanup
    \/ Report
    \/ Release

\* The call is synchronous and every library call it makes returns or
\* raises: a call in progress takes its next step.
SpecFair == Spec /\ WF_vars(RunStep)

(* ------------------------ concurrent invocations ---------------------- *)

\* The operating system schedules the other process: the running
\* invocation is suspended where it is and the other one goes on.  The
\* invocations share the filesystem and nothing else; no lock is taken.
Switch ==
    /\ other' = Locals
    /\ cache_dir_arg' = other.cache_dir_arg
    /\ pc' = other.pc
    /\ err' = other.err
    /\ cache_dir' = other.cache_dir
    /\ is_temp_dir' = other.is_temp_dir
    /\ sha256_valid' = other.sha256_valid
    /\ trail' = other.trail
    /\ last_sum' = other.last_sum
    /\ left_in_cache' = other.left_in_cache
    /\ printed' = other.printed
    /\ prev' = other.prev
    /\ entries' = other.entries
    /\ yielded' = other.yielded
    /\ UNCHANGED << desc, persist, tmp, dl, runs >>

NextConc ==
    \/ Next
    \/ Switch

\* Two processes started with the arguments the registered datasets pass:
\* delete_dir_name "__MACOSX" (NeRFSynthetic) or None (NeRFLLFF).
InitConc ==
    /\ Init
    /\ desc \in { NeRFSynthetic, [ NeRFSynthetic EXCEPT !.delete_dir_name = NoneName ] }
    /\ persist \in { AbsentDir, EmptyDir }

SpecConc == InitConc /\ [][NextConc]_vars

(* ------------------------- _lookahead on its own ---------------------- *)

\* The longest sequence _lookahead is given.
MaxLen == 4

\* Names of directory entries.
EntryNames == { "README.txt", "lego", "ship" }

BoundedSeqs == UNION { [ 1..n -> EntryNames ] : n \in 0..MaxLen }

\* A caller about to iterate over _lookahead(entries).
InitLookahead ==
    /\ desc = NeRFSynthetic
    /\ cache_dir_arg = None
    /\ persist = AbsentDir
    /\ tmp = [ i \in TempIds |-> AbsentDir ]
    /\ dl = {}
    /\ pc = "_lookahead"
    /\ err = "none"
    /\ cache_dir = 0
    /\ is_temp_dir = FALSE
    /\ sha256_valid = FALSE
    /\ runs = 0
    /\ trail = << >>
    /\ last_sum = "none"
    /\ left_in_cache = Absent
    /\ printed = << >>
    /\ prev = NoPrev
    /\ entries \in BoundedSeqs
    /\ yielded = << >>
    /\ other = IdleLocals

\* The caller's for loop runs the generator to its end.
CallLookahead ==
    /\ pc = "_lookahead"
    /\ yielded' = _lookahead(entries)
    /\ pc' = "yielded"
    /\ err' = IF yielded' = StopIteration
              THEN "RuntimeError: generator raised StopIteration" ELSE "none"
    /\ UNCHANGED << entries, other, prev, desc, cache_dir_arg, persist, tmp, dl,
                    cache_dir, is_temp_dir, sha256_valid, runs, trail, last_sum,
                    left_in_cache, printed >>

NextLookahead == CallLookahead

SpecLookahead == InitLookahead /\ [][NextLookahead]_vars

(* ----------------------- interruption of a call ----------------------- *)

\* The positions inside the with-block of download_single_file, where the
\* generator of _make_dir_or_temp_dir is suspended at its yield.
InWithBlock ==
    pc \in { "CheckArgs", "CacheCheck", "Download", "VerifyAfterDownload",
             "Extract", "ValidateByproduct", "Cleanup", "Report" }

\* SIGINT: Python raises KeyboardInterrupt in the main thread; raised inside
\* the with-block it is thrown into the generator at the yield, whose
\* finally clause then runs.
Interrupt ==
    /\ InWithBlock
    /\ Raise("KeyboardInterrupt")
    /\ trail' = Append(trail, "KeyboardInterrupt")
    /\ UNCHANGED << entries, yielded, other, prev, desc, cache_dir_arg, persist, tmp, dl, cache_dir,
                    is_temp_dir, sha256_valid, runs, last_sum, left_in_cache,
                    printed >>

\* SIGKILL, or SIGTERM with its default disposition: the process ends where
\* it is and no finally clause runs.
Kill ==
    /\ pc \in { "Acquire", "Release" } \/ InWithBlock
    /\ pc' = "Killed"
    /\ err' = "killed"
    /\ UNCHANGED << entries, yielded, other, prev, desc, cache_dir_arg, persist, tmp, dl, cache_dir,
                    is_temp_dir, sha256_valid, runs, trail, last_sum,
                    left_in_cache, printed >>

NextKill ==
    \/ Next
    \/ Interrupt
    \/ Kill

SpecKill == Init /\ [][NextKill]_vars

TypeOK ==
    /\ desc \in Descriptors
    /\ cache_dir_arg \in CacheDirArgs
    /\ persist \in DirStates
    /\ tmp \in [ TempIds -> DirStates ]
    /\ dl \subseteq Paths
    /\ \A p \in dl : \A i \in 1..Len(p) : SubSeq(p, 1, i) \in dl
    /\ pc \in { "Idle", "Acquire", "CheckArgs", "CacheCheck", "Download",
                "VerifyAfterDownload", "Extract", "ValidateByproduct",
                "Cleanup", "Report", "Release", "Done", "Failed", "Killed",
                "_lookahead", "yielded" }
    /\ cache_dir \in 0..MaxRuns
    /\ is_temp_dir \in BOOLEAN
    /\ sha256_valid \in BOOLEAN
    /\ runs \in 0..MaxRuns
    /\ last_sum \in { "none", "match", "mismatch" }

(* ------------------------------ the claims ---------------------------- *)

Steps == Range(trail)

Count(s, x) == Cardinality({ i \in 1..Len(s) : s[i] = x })

\* The position of the first x in s, or Len(s) + 1.
First(s, x) ==
    IF x \in Range(s) THEN CHOOSE i \in 1..Len(s) : s[i] = x /\ \A j \in 1..(i - 1) : s[j] # x
    ELSE Len(s) + 1

Terminal == pc \in { "Done", "Failed" }

\* The file at cache_dir / file_name is a regular file whose digest is the
\* expected one.
ArchiveVerified ==
    is_file(CurDir, file_name) /\ HexDigest(CurDir.files[file_name]) = desc.sha256

\* C1: extraction is only reached, and only ever done, in a call whose latest
\* checksum computation of cache_dir / file_name gave the expected digest,
\* the file on disk then having that digest; and an extraction in a call
\* whose cache check did not hit comes after a fetch of that call.
C1_ExtractOnlyVerified ==
    (pc = "Extract" \/ "Extract" \in Steps) =>
        /\ last_sum = "match"
        /\ sha256_valid
        /\ pc = "Extract" => ArchiveVerified
        /\ "CacheCheck" \in Steps
        /\ "CacheHit" \notin Steps =>
              /\ "Download" \in Steps
              /\ First(trail, "CacheCheck") < First(trail, "Download")
              /\ First(trail, "Download") < First(trail, "VerifyAfterDownload")
              /\ First(trail, "VerifyAfterDownload") < First(trail, "Extract")

\* C1 witness: a second call finds a stale file in the persistent cache,
\* fetches, and is about to extract.
C1_Witness ==
    /\ pc = "Extract"
    /\ runs = 2
    /\ cache_dir_arg = CachePath
    /\ "CacheStale" \in Steps
    /\ "Download" \in Steps

\* The call was made with the persistent cache dir, which then held a
\* regular file at file_name whose digest is the expected one / another one.
ValidLeftInCache ==
    /\ cache_dir_arg = CachePath
    /\ left_in_cache \in Contents
    /\ HexDigest(left_in_cache) = desc.sha256

StaleLeftInCache ==
    /\ cache_dir_arg = CachePath
    /\ left_in_cache \in Contents
    /\ HexDigest(left_in_cache) # desc.sha256

\* C2: a call made with the persistent cache dir in which an earlier call
\* left an archive with the expected digest makes no fetch: its cache check
\* hits, and it goes on to extract.
C2_CacheHitNoFetch ==
    (runs >= 2 /\ ValidLeftInCache) =>
        /\ "Download" \notin Steps
        /\ pc # "Download"
        /\ "CacheCheck" \in Steps => "CacheHit" \in Steps
        /\ Terminal => "Extract" \in Steps

\* C2 witness: such a second call has returned.
C2_Witness ==
    /\ runs = 2
    /\ ValidLeftInCache
    /\ pc = "Done"
    /\ "Download" \notin Steps

\* The exceptions download_url raises.
FetchErrors == { "URLError", "ContentTooShortError", "IsADirectoryError" }

ChecksumMismatch == "ValueError: checksum mismatch"

\* C3: a call that finds a file with another digest at the cache path makes
\* exactly one fetch; when the fetch returns, the checksum is computed again
\* right after it; and when that still mismatches the call fails with the
\* checksum-mismatch ValueError, having extracted, validated and deleted
\* nothing.
C3_OneFetchThenFail ==
    (StaleLeftInCache /\ "CacheCheck" \in Steps) =>
        /\ "CacheStale" \in Steps
        /\ "CacheHit" \notin Steps
        /\ Count(trail, "Download") = IF pc = "Download" THEN 0 ELSE 1
        /\ (pc \notin { "Download", "VerifyAfterDownload" } /\ err \notin FetchErrors) =>
              /\ Count(trail, "VerifyAfterDownload") = 1
              /\ First(trail, "VerifyAfterDownload") = First(trail, "Download") + 1
        /\ ("VerifyAfterDownload" \in Steps /\ ~ArchiveVerified) =>
              /\ last_sum = "mismatch"
              /\ err = ChecksumMismatch
              /\ pc \in { "Release", "Failed" }
              /\ Steps \cap { "Extract", "ValidateByproduct", "Cleanup",
                              "rmtree delete_dir", "Report" } = {}
              /\ printed = << >>
        /\ (Terminal /\ err = ChecksumMismatch) => pc = "Failed"

\* C3 witness: the second call found a stale file, fetched content that
\* mismatches too, and failed.
C3_Witness ==
    /\ runs = 2
    /\ StaleLeftInCache
    /\ pc = "Failed"
    /\ err = ChecksumMismatch
    /\ Count(trail, "Download") = 1

TempDirsOnDisk == { i \in TempIds : tmp[i].kind # "absent" }

\* C4: with no cache dir given, no temporary directory is left on disk when
\* the call has returned or raised; the directory is there while the call
\* runs, and shutil.rmtree(cache_dir) is done once for every mkdtemp of the
\* call, never without one and never twice.
C4_TempDirReleasedOnce ==
    /\ Count(trail, "mkdtemp") <= 1
    /\ Count(trail, "rmtree cache_dir") <= Count(trail, "mkdtemp")
    /\ cache_dir_arg # None => Steps \cap { "mkdtemp", "rmtree cache_dir" } = {}
    /\ (cache_dir_arg = None /\ "mkdtemp" \in Steps /\ ~Terminal) =>
          /\ is_temp_dir
          /\ TempDirsOnDisk = { cache_dir }
          /\ "rmtree cache_dir" \notin Steps
    /\ Terminal =>
          /\ TempDirsOnDisk = {}
          /\ Count(trail, "rmtree cache_dir") = Count(trail, "mkdtemp")

\* C4 witness: a call with a temporary cache dir failed while extracting.
C4_Witness ==
    /\ pc = "Failed"
    /\ cache_dir_arg = None
    /\ err = "OSError: extractall"
    /\ Count(trail, "mkdtemp") = 1
    /\ Count(trail, "rmtree cache_dir") = 1

CacheDirIsFile == "ValueError: cache dir is a file"

\* C5: a call given a cache_dir that is a regular file fails with the
\* ValueError of _make_dir_or_temp_dir, having done nothing else: no fetch,
\* checksum, extraction or deletion.
C5_FileAsCacheDirFailsFirst ==
    (cache_dir_arg = CachePath /\ persist.kind = "file" /\ pc \notin { "Idle", "Acquire" }) =>
        /\ pc = "Failed"
        /\ err = CacheDirIsFile
        /\ trail = << "Acquire" >>
        /\ last_sum = "none"
        /\ printed = << >>
        /\ persist = RegularFile

\* C5 witness: such a call has failed.
C5_Witness ==
    /\ cache_dir_arg = CachePath
    /\ persist.kind = "file"
    /\ pc = "Failed"
    /\ err = CacheDirIsFile

ByproductMissing == "FileNotFoundError: byproduct_dir"

\* C6: the byproduct check passes only when byproduct_dir exists; a call
\* whose archive matched and was extracted without error, and whose
\* byproduct_dir is then missing, fails with FileNotFoundError, prints no
\* listing and does not return normally.
C6_MissingByproductFails ==
    /\ pc = "Cleanup" => exists(desc.byproduct_dir_name)
    /\ ("ValidateByproduct" \in Steps /\ ~exists(desc.byproduct_dir_name)
           /\ "rmtree delete_dir" \notin Steps) =>
          /\ err = ByproductMissing
          /\ pc \in { "Release", "Failed" }
          /\ "Report" \notin Steps
          /\ printed = << >>
    /\ err = ByproductMissing => pc # "Done" /\ last_sum = "match"

\* C6 witness: a verified archive without the byproduct was extracted and
\* the call failed.
C6_Witness ==
    /\ pc = "Failed"
    /\ err = ByproductMissing
    /\ last_sum = "match"
    /\ "Extract" \in Steps
    /\ ~exists(desc.byproduct_dir_name)

\* The content whose digest is the expected checksum.
ExpectedArchive == CHOOSE c \in Contents : HexDigest(c) = desc.sha256

\* The call found no file at the cache path, fetched a zip archive with the
\* expected digest that holds the byproduct path, and extracted all of it.
FreshRunOfValidArchive ==
    /\ "CacheCheck" \in Steps
    /\ Steps \cap { "CacheHit", "CacheStale" } = {}
    /\ "VerifyAfterDownload" \in Steps
    /\ last_sum = "match"
    /\ IsZip(ExpectedArchive)
    /\ desc.byproduct_dir_name \in Range(Members(ExpectedArchive))
    /\ "ValidateByproduct" \in Steps

ListingEmpty == "RuntimeError: generator raised StopIteration"

\* The children of the byproduct path in the expected archive that the
\* cleanup step does not remove.
SurvivingChildren ==
    { m \in Range(Members(ExpectedArchive)) :
        /\ Len(m) = Len(desc.byproduct_dir_name) + 1
        /\ IsPrefix(desc.byproduct_dir_name, m)
        /\ ~(desc.delete_dir_name # NoneName /\ IsPrefix(desc.delete_dir_name, m)) }

CleanupPathUsable ==
    desc.delete_dir_name = NoneName \/ IsDirPath(desc.delete_dir_name)

\* The byproduct path names a directory and the cleanup path is unset or
\* names another directory, as in the calls the registered datasets make.
DescriptorWellFormed ==
    /\ IsDirPath(desc.byproduct_dir_name)
    /\ CleanupPathUsable
    /\ desc.delete_dir_name # desc.byproduct_dir_name

C8_CleanupOnSuccess ==
    /\ [](( pc = "Done" /\ desc.delete_dir_name # NoneName ) =>
             /\ ~exists(desc.delete_dir_name)
             /\ exists(desc.byproduct_dir_name))
    /\ [](desc.delete_dir_name = NoneName => "rmtree delete_dir" \notin Steps)
    /\ [][desc.delete_dir_name = NoneName => dl \subseteq dl']_vars

\* C8 witness: a call returned normally after deleting __MACOSX.
C8_Witness ==
    /\ pc = "Done"
    /\ desc.delete_dir_name = MacosxDir
    /\ "rmtree delete_dir" \in Steps
    /\ ~exists(MacosxDir)
    /\ exists(desc.byproduct_dir_name)

\* The steps of a call that are states of the pipeline.
IsPipelineState(x) ==
    x \in { "CacheCheck", "CacheHit", "Download", "VerifyAfterDownload",
            "Extract", "ValidateByproduct", "Cleanup" }

Pipeline == SelectSeq(trail, IsPipelineState)

HitPath ==
    << "CacheCheck", "CacheHit", "Extract", "ValidateByproduct", "Cleanup" >>

DownloadPath ==
    << "CacheCheck", "Download", "VerifyAfterDownload", "Extract",
       "ValidateByproduct", "Cleanup" >>

\* C9: the pipeline states of a call are always passed in the order
\* CacheCheck, then CacheHit or Download and VerifyAfterDownload, then
\* Extract, ValidateByproduct, Cleanup, and a call that returned normally
\* passed all of them, with a matching checksum, every member of the archive
\* extracted before the byproduct check, and an existing byproduct_dir; once
\* a step has raised, the call only releases the cache dir and fails: the
\* cache file and download_dir stay as they are.
C9_PipelineOrder ==
    /\ [](IsPrefix(Pipeline, HitPath) \/ IsPrefix(Pipeline, DownloadPath))
    /\ [](pc = "Done" =>
             /\ Pipeline \in { HitPath, DownloadPath }
             /\ err = "none"
             /\ last_sum = "match"
             /\ sha256_valid
             /\ exists(desc.byproduct_dir_name))
    /\ [](pc \in { "ValidateByproduct", "Cleanup", "Report" } =>
             /\ ArchiveVerified
             /\ IsZip(CurDir.files[file_name]))
    /\ [](pc = "ValidateByproduct" =>
             Range(Members(CurDir.files[file_name])) \subseteq dl)
    /\ [](err # "none" => pc \in { "Release", "Failed" })
    /\ [][(err # "none" /\ runs' = runs) =>
             /\ pc' = "Failed"
             /\ err' = err
             /\ dl' = dl
             /\ persist' = persist
             /\ Pipeline' = Pipeline]_vars

\* C9 witness: a call returned normally along the download path.
C9_Witness ==
    /\ pc = "Done"
    /\ Pipeline = DownloadPath

\* The call is past a successful _make_dir_or_temp_dir.
Acquired == trail # << >> /\ ~(pc = "Failed" /\ trail = << "Acquire" >>)

\* C10 as stated: after every call made with a cache dir, that directory
\* exists, and after a normal return it holds the verified archive.
C10_CacheDirExistsAfterRun ==
    (Terminal /\ cache_dir_arg = CachePath) =>
        /\ persist.kind = "dir"
        /\ pc = "Done" => ( is_file(persist, file_name)
                            /\ HexDigest(persist.files[file_name]) = desc.sha256 )

\* C10 as amended: the cache dir, once it exists, is never removed; a call
\* made with a cache dir whose _make_dir_or_temp_dir succeeded has that
\* directory from then on, whether it returns or raises, while one that fails
\* in _make_dir_or_temp_dir leaves the path as it found it, which is no
\* directory; after a normal return the directory holds a file at file_name
\* with the expected digest.
C10_CacheDirKept ==
    /\ [][persist.kind = "dir" => persist'.kind = "dir"]_vars
    /\ []((cache_dir_arg = CachePath /\ Acquired) => persist.kind = "dir")
    /\ []((cache_dir_arg = CachePath /\ pc = "Failed" /\ trail = << "Acquire" >>) =>
             persist \in { AbsentDir, RegularFile })
    /\ []((cache_dir_arg = CachePath /\ pc = "Done") =>
             /\ is_file(persist, file_name)
             /\ HexDigest(persist.files[file_name]) = desc.sha256)

\* C10 witness: a call with the persistent cache dir failed on a checksum
\* mismatch and the directory is there, holding the mismatching file.
C10_Witness ==
    /\ pc = "Failed"
    /\ cache_dir_arg = CachePath
    /\ err = ChecksumMismatch
    /\ persist.kind = "dir"
    /\ is_file(persist, file_name)

\* C11 as stated (under SpecKill): however a call with a temporary cache dir
\* is ended, by KeyboardInterrupt or by the process being killed, no
\* temporary directory is left on disk.
C11_TempDirRemovedOnTermination ==
    (cache_dir_arg = None /\ (Terminal \/ pc = "Killed")) => TempDirsOnDisk = {}

\* C11 as amended (under SpecKill): a call with a temporary cache dir that
\* ends by returning or by an exception, KeyboardInterrupt inside the
\* with-block included, leaves no temporary directory; a process killed
\* after mkdtemp and before the finally clause has run leaves the directory.
C11_TempDirRemovedOnException ==
    /\ (cache_dir_arg = None /\ Terminal) =>
          /\ TempDirsOnDisk = {}
          /\ Count(trail, "rmtree cache_dir") = Count(trail, "mkdtemp")
    /\ (pc = "Killed" /\ is_temp_dir) =>
          /\ TempDirsOnDisk = { cache_dir }
          /\ "rmtree cache_dir" \notin Steps

\* C11 witness: a call with a temporary cache dir was interrupted after the
\* download and has failed with KeyboardInterrupt, the directory removed.
C11_Witness ==
    /\ pc = "Failed"
    /\ cache_dir_arg = None
    /\ err = "KeyboardInterrupt"
    /\ "Download" \in Steps
    /\ "rmtree cache_dir" \in Steps
    /\ TempDirsOnDisk = {}

\* The directory state behind the suspended invocation's cache_dir, and
\* whether its archive file has the expected digest.
OtherDir == IF other.is_temp_dir THEN tmp[other.cache_dir] ELSE persist

OtherArchiveVerified ==
    is_file(OtherDir, file_name) /\ HexDigest(OtherDir.files[file_name]) = desc.sha256

\* C12 (under SpecConc): every invocation about to extract has verified the
\* file, and one that uses a temporary cache dir still has the verified file;
\* but nothing stops the other invocation: the verified file of an
\* invocation suspended before its extraction changes exactly by a
\* download_url of the running invocation into the shared persistent cache
\* dir, and by nothing else.
C12_RaceOnlyThroughSharedCache ==
    /\ [](pc = "Extract" => (last_sum = "match" /\ sha256_valid))
    /\ []((pc = "Extract" /\ is_temp_dir) => ArchiveVerified)
    /\ []((other.pc = "Extract" /\ other.is_temp_dir) => OtherArchiveVerified)
    /\ [][(other' = other /\ other.pc = "Extract"
              /\ OtherArchiveVerified /\ ~OtherArchiveVerified') =>
             /\ pc = "Download"
             /\ pc' \in { "VerifyAfterDownload", "Release" }
             /\ ~is_temp_dir
             /\ ~other.is_temp_dir]_vars

\* C12 witness: an invocation verified the archive in the shared cache dir,
\* the other one then fetched other content to the same path, and the first
\* is about to extract a file that does not have the expected digest.
C12_Witness ==
    /\ pc = "Extract"
    /\ last_sum = "match"
    /\ sha256_valid
    /\ cache_dir_arg = CachePath
    /\ other.cache_dir_arg = CachePath
    /\ "Download" \in Range(other.trail)
    /\ ~ArchiveVerified

\* What is at CachePath / file_name.
CacheFile == IF persist.kind = "dir" THEN persist.files[file_name] ELSE Absent

\* C13: the cache check changes nothing on disk; a regular file at the cache
\* path is changed only by download_url, and never removed; after a call with
\* the persistent cache dir that failed with the checksum-mismatch
\* ValueError a file with another digest than the expected one is at the
\* cache path, the next call with that cache dir finds it there, and every
\* call that finds such a file reports the mismatch, never a hit, and goes on
\* to download_url.
C13_StaleFileKeptUntilFetch ==
    /\ [][pc = "CacheCheck" => (persist' = persist /\ tmp' = tmp)]_vars
    /\ [][(CacheFile \in Contents /\ CacheFile' # CacheFile) =>
             /\ pc = "Download"
             /\ ~is_temp_dir
             /\ CacheFile' \in Contents]_vars
    /\ []((Terminal /\ cache_dir_arg = CachePath /\ err = ChecksumMismatch) =>
             /\ CacheFile \in Contents
             /\ HexDigest(CacheFile) # desc.sha256)
    /\ [][(pc = "Failed" /\ err = ChecksumMismatch /\ cache_dir_arg = CachePath
              /\ runs' = runs + 1 /\ cache_dir_arg' = CachePath) =>
             /\ left_in_cache' = CacheFile
             /\ HexDigest(left_in_cache') # desc.sha256]_vars
    /\ []((StaleLeftInCache /\ "CacheCheck" \in Steps) =>
             /\ "CacheStale" \in Steps
             /\ "CacheHit" \notin Steps
             /\ pc = "Download" \/ "Download" \in Steps)

\* C13 witness: the first call fetched a complete file with another digest
\* and failed; the second call found that file, reported the mismatch and
\* fetched again.
C13_Witness ==
    /\ runs = 2
    /\ StaleLeftInCache
    /\ left_in_cache # "truncated"
    /\ "CacheStale" \in Steps
    /\ "Download" \in Steps
    /\ pc = "VerifyAfterDownload"

\* C14: in a call made with cache_dir None, for a descriptor whose
\* byproduct_dir_name is a string, the cache check finds no file in the
\* fresh temporary directory: it never reports a hit or a mismatch, the call
\* goes from the cache check to download_url, and once past it the call has
\* made exactly one fetch, whatever earlier calls left on disk.
C14_EphemeralNeverHits ==
    (cache_dir_arg = None /\ desc.byproduct_is_str) =>
        /\ Steps \cap { "CacheHit", "CacheStale" } = {}
        /\ (pc = "CacheCheck") => ( is_temp_dir /\ CurDir = EmptyDir )
        /\ (pc = "Extract") => "Download" \in Steps
        /\ Count(trail, "Download") <= 1
        /\ ("mkdtemp" \in Steps /\ pc \notin { "CheckArgs", "CacheCheck", "Download" }) =>
              Count(trail, "Download") = 1

\* C14 witness: an earlier call left the archive with the expected digest in
\* the persistent cache dir and extracted it; the second call, made with
\* cache_dir None, fetched once all the same and returned.
C14_Witness ==
    /\ runs = 2
    /\ cache_dir_arg = None
    /\ left_in_cache \in Contents
    /\ HexDigest(left_in_cache) = desc.sha256
    /\ pc = "Done"
    /\ Count(trail, "Download") = 1

\* C15: a call that failed with the FileNotFoundError of the byproduct
\* check leaves every member of the archive it extracted under download_dir,
\* has not run the deletion of delete_dir_name, so that path still exists
\* when the archive holds it, and nothing under download_dir changes while
\* the exception propagates; no step that raises removes a path from
\* download_dir.
C15_NoRollbackOnMissingByproduct ==
    /\ [](err = ByproductMissing =>
             /\ pc \in { "Release", "Failed" }
             /\ ~exists(desc.byproduct_dir_name)
             /\ Range(Members(ExpectedArchive)) \subseteq dl
             /\ Steps \cap { "Cleanup", "rmtree delete_dir", "Report" } = {}
             /\ desc.delete_dir_name \in Range(Members(ExpectedArchive)) =>
                   exists(desc.delete_dir_name))
    /\ [][(err = ByproductMissing /\ runs' = runs) => dl' = dl]_vars
    /\ [][(runs' = runs /\ err = "none" /\ err' # "none") => dl \subseteq dl']_vars

\* C15 witness: the verified archive held __MACOSX and not the byproduct
\* path; the call failed, and __MACOSX, the path to delete, is still there.
C15_Witness ==
    /\ pc = "Failed"
    /\ err = ByproductMissing
    /\ desc.delete_dir_name = MacosxDir
    /\ exists(MacosxDir)
    /\ exists(MacosxFile)
    /\ ~exists(desc.byproduct_dir_name)

\* The current call was made with the persistent cache dir right after a
\* call with that cache dir had returned normally.
RerunAfterSuccess ==
    /\ cache_dir_arg = CachePath
    /\ prev.pc = "Done"
    /\ prev.cache_dir_arg = CachePath

\* C16: a call made with the persistent cache dir right after a call with
\* the same descriptor and cache dir returned normally never fetches and
\* never changes the cache dir; it can fail only by an I/O error of
\* extractall; and when it returns, download_dir and the cache dir are as
\* the first call left them: byproduct_dir exists, delete_dir_name does not,
\* and the cache dir holds the archive with the expected digest.
C16_SecondRunIdempotent ==
    RerunAfterSuccess =>
        /\ persist = prev.persist
        /\ "Download" \notin Steps
        /\ pc # "Download"
        /\ prev.dl \subseteq dl
        /\ pc = "Failed" => err = "OSError: extractall"
        /\ pc = "Done" =>
              /\ dl = prev.dl
              /\ exists(desc.byproduct_dir_name)
              /\ desc.delete_dir_name # NoneName => ~exists(desc.delete_dir_name)
              /\ is_file(persist, file_name)
              /\ HexDigest(persist.files[file_name]) = desc.sha256

\* C16 witness: the second call extracted __MACOSX again, deleted it again
\* and returned, with download_dir as the first call left it.
C16_Witness ==
    /\ RerunAfterSuccess
    /\ pc = "Done"
    /\ "rmtree delete_dir" \in Steps
    /\ dl = prev.dl
    /\ persist = prev.persist
    /\ dl # {}

\* The statements of download_single_file in program order.
ProgramOrder ==
    << "Acquire", "CheckArgs", "CacheCheck", "Download", "VerifyAfterDownload",
       "Extract", "ValidateByproduct", "Cleanup", "Report", "Release" >>

\* How far in the program text a position is; a call that has returned or
\* raised is past all of it.
Rank(p) ==
    IF p \in Range(ProgramOrder)
    THEN CHOOSE i \in 1..Len(ProgramOrder) : ProgramOrder[i] = p
    ELSE Len(ProgramOrder) + 1

\* C17 (under SpecFair): every step of a call moves it forward in the
\* program text, so no statement is executed twice and download_url is
\* called at most once in a call; a call in progress can always take a step;
\* and every call that was made ends, returning (Done) or raising (Failed).
C17_RunTerminates ==
    /\ [][runs' = runs => Rank(pc') > Rank(pc)]_vars
    /\ [](Count(trail, "Download") <= 1)
    /\ [](\A x \in Range(ProgramOrder) : Count(trail, x) <= 1)
    /\ [](pc \in Range(ProgramOrder) => ENABLED RunStep)
    /\ (pc = "Acquire") ~> Terminal
    /\ (pc = "Download") ~> Terminal

\* C17 witness: the fetch of the first call failed with URLError and the
\* call ended, having called download_url once.
C17_Witness ==
    /\ runs = 1
    /\ pc = "Failed"
    /\ err = "URLError"
    /\ Count(trail, "Download") = 1

\* C18 (under SpecLookahead): for every finite sequence of entries,
\* _lookahead yields each entry once, in the original order, with has_more
\* TRUE for every entry but the final one and FALSE for the final one.
C18_LookaheadMarksLast ==
    pc = "yielded" =>
        /\ Len(yielded) = Len(entries)
        /\ \A i \in 1..Len(yielded) :
              /\ yielded[i][1] = entries[i]
              /\ yielded[i][2] = (i < Len(entries))

\* C18, the part that holds: given at least one entry, _lookahead yields
\* each entry once, in order, and marks exactly the final one as last; given
\* none, it raises RuntimeError.
C18_NonEmptyMarksLast ==
    pc = "yielded" =>
        IF entries = << >>
        THEN yielded = StopIteration /\ err = ListingEmpty
        ELSE /\ Len(yielded) = Len(entries)
             /\ \A i \in 1..Len(yielded) :
                   /\ yielded[i][1] = entries[i]
                   /\ yielded[i][2] = (i < Len(entries))

\* C19 as stated: the sha256 constant of one registered dataset has one
\* character more than a SHA-256 hex digest, so that no file has it as its
\* digest and no call for that dataset passes verification.
C19_ChecksumConstantTooLong ==
    \E d \in Registered :
        /\ Len(d.sha256) = HexDigestLen + 1
        /\ \A c \in Contents : HexDigest(c) # d.sha256
        /\ desc = d => last_sum # "match"

\* C19 as amended: the sha256 constants of both registered datasets have
\* the length of a SHA-256 hex digest, as every digest sha256sum returns
\* has; a call verifies only when the expected checksum has that length, so
\* one with a character more never would; and the call NeRFSynthetic makes
\* verifies whenever the file at file_path is the released archive.
C19_ChecksumConstantsHaveDigestLength ==
    /\ \A d \in Registered : Len(d.sha256) = HexDigestLen
    /\ \A c \in Contents : Len(HexDigest(c)) = HexDigestLen
    /\ last_sum = "match" => Len(desc.sha256) = HexDigestLen
    /\ Len(desc.sha256) # HexDigestLen =>
          /\ pc \notin { "Extract", "Done" }
          /\ "Extract" \notin Steps
    /\ (desc.sha256 = NeRFSyntheticSha256 /\ pc \in { "CacheCheck", "VerifyAfterDownload" }
           /\ is_file(CurDir, file_name) /\ CurDir.files[file_name] = "synthetic_zip") =>
          sha256sum(CurDir, file_name) = desc.sha256
    /\ (desc.sha256 = NeRFSyntheticSha256 /\ "VerifyAfterDownload" \in Steps
           /\ is_file(CurDir, file_name) /\ CurDir.files[file_name] = "synthetic_zip") =>
          last_sum = "match"

\* C19 witness: the call NeRFSynthetic makes fetched the released archive,
\* the checksum matched the 64-character constant, and the call returned.
C19_Witness ==
    /\ desc = NeRFSynthetic
    /\ Len(desc.sha256) = HexDigestLen
    /\ pc = "Done"
    /\ last_sum = "match"
    /\ "Download" \in Steps
    /\ runs = 1

====
